---- MODULE Spec2Model ----
(***************************************************************************)
(* Katz centrality (networkx/algorithms/centrality/katz.py).               *)
(*                                                                         *)
(* A caller holds a graph G and the arguments alpha, beta, max_iter, tol   *)
(* and nstart, and calls katz_centrality (the power iteration) or          *)
(* katz_centrality_numpy (the linear solve) on them, one call after the    *)
(* other.  A Python number is modelled by the exact rational <<n, d>> it   *)
(* stands for: a Fraction is that rational, and so is a float whenever the *)
(* arithmetic is exact in binary64 (dyadic operands of the sizes used      *)
(* here).  Float arithmetic on other operands rounds; the rounded value is *)
(* modelled by the rational it approximates, and the one decision taken on *)
(* numbers, err < nnodes*tol, is then open when the two rationals are      *)
(* equal (see TieOutcomes).  The only irrational quantity, the Euclidean   *)
(* norm, is kept as its square.                                            *)
(***************************************************************************)
EXTENDS Integers, Sequences, FiniteSets

VARIABLES
    G,           \* the graph argument
    alpha,       \* attenuation factor
    beta,        \* the caller's beta object (scalar, list or dict)
    max_iter,    \* iteration budget
    tol,         \* tolerance
    nstart,      \* the caller's nstart object (None or a dict)
    normChoices, \* the values of `normalized` the caller uses
    floats,      \* the numbers passed are floats (TRUE) or Fractions (FALSE)
    hasNumpy,    \* `import numpy` succeeds in this installation
    ties,        \* pass |-> how `err < nnodes*tol` came out on rounded floats
                 \* whose exact values are equal (a fact of the arguments)
    solver,      \* function being executed: "katz_centrality" / "katz_centrality_numpy"
    normalized,  \* the `normalized` argument of the running call
    pc,          \* position of the running call
    i,           \* loop variable of `for i in range(max_iter)`
    x,           \* local x: a reference to a dict object
    xlast,       \* local xlast: a reference to a dict object
    dicts,       \* dict objects allocated by the running call
    betaLocal,   \* local rebinding of beta after the casts (a dict)
    visited,     \* keys of x already handled by `for n in x` in this pass
    errs,        \* err of every completed pass of the running call
    last,        \* outcome of the most recent completed call
    prev         \* outcome of the call completed before it

vars == <<G, alpha, beta, max_iter, tol, nstart, normChoices, floats, hasNumpy,
          ties, solver, normalized, pc, i, x, xlast, dicts, betaLocal, visited, errs, last, prev>>

args == <<G, alpha, beta, max_iter, tol, nstart, normChoices, floats>>

-----------------------------------------------------------------------------
(* Exact rational arithmetic for Python's numbers.                         *)

Abs(a) == IF a < 0 THEN -a ELSE a

RECURSIVE GCD(_, _)
GCD(a, b) == IF b = 0 THEN a ELSE GCD(b, a % b)

\* n/d in lowest terms with a positive denominator
R(n, d) ==
    LET g == GCD(Abs(n), Abs(d))
        sg == IF d < 0 THEN -1 ELSE 1
    IN  <<sg * (n \div g), sg * (d \div g)>>

Zero == <<0, 1>>
One == <<1, 1>>
Num(k) == <<k, 1>>

\* a + b, adding integer and fractional parts apart to keep the products small
RAdd(a, b) ==
    LET g == GCD(a[2], b[2])
        l == (a[2] \div g) * b[2]
        ia == a[1] \div a[2]
        ib == b[1] \div b[2]
        fa == a[1] % a[2]
        fb == b[1] % b[2]
    IN  R((ia + ib) * l + fa * (l \div a[2]) + fb * (l \div b[2]), l)

RNeg(a) == <<-a[1], a[2]>>
RSub(a, b) == RAdd(a, RNeg(b))
RAbs(a) == <<Abs(a[1]), a[2]>>

RMul(a, b) ==
    LET g1 == GCD(Abs(a[1]), b[2])
        g2 == GCD(Abs(b[1]), a[2])
    IN  IF a[1] = 0 \/ b[1] = 0 THEN Zero
        ELSE <<(a[1] \div g1) * (b[1] \div g2), (a[2] \div g2) * (b[2] \div g1)>>

\* a < b, by integer parts and then the reciprocals of the fractional parts
\* (no products)
RECURSIVE RLess(_, _)
RLess(a, b) ==
    LET ia == a[1] \div a[2]
        ib == b[1] \div b[2]
        fa == a[1] % a[2]
        fb == b[1] % b[2]
    IN  IF ia # ib THEN ia < ib
        ELSE IF fb = 0 THEN FALSE
        ELSE IF fa = 0 THEN TRUE
        ELSE RLess(<<b[2], fb>>, <<a[2], fa>>)

RLeq(a, b) == ~RLess(b, a)

\* sum of f[k] over the finite set S
RECURSIVE RSum(_, _)
RSum(f, S) ==
    IF S = {} THEN Zero
    ELSE LET k == CHOOSE k \in S : TRUE
         IN  RAdd(f[k], RSum(f, S \ {k}))

-----------------------------------------------------------------------------
(* The Graph collaborator: node enumeration, adjacency with edge data,     *)
(* and the multigraph flag.                                                *)

Range(sq) == {sq[k] : k \in 1..Len(sq)}

\* edge data dicts: a set of <<attribute, value>> pairs
NoData == {}
Weight(w) == {<<"weight", w>>}

Sym(E) == E \cup {<<e[2], e[1], e[3]>> : e \in E}

Graph(nodes, E, multi) ==
    [nodes |-> nodes,
     adj |-> [n \in Range(nodes) |->
                [m \in {e[2] : e \in {d \in E : d[1] = n}} |->
                    (CHOOSE e \in E : e[1] = n /\ e[2] = m)[3]]],
     multigraph |-> multi]

\* len(G), G.number_of_nodes()
NumberOfNodes(g) == Len(g.nodes)

\* G[n][nbr].get('weight', 1)
GetWeight(data) ==
    IF \E p \in data : p[1] = "weight"
    THEN (CHOOSE p \in data : p[1] = "weight")[2]
    ELSE 1

-----------------------------------------------------------------------------
(* Python objects: dicts, the beta argument, None.                         *)

\* A dict of scores: entry n is val[n] * sqrt(s2).  s2 is the square of the
\* factor the entries were multiplied by (1 until a normalisation); <<1, 0>>
\* stands for a division by a zero norm (non-finite floats).
Dict(val) == [val |-> val, s2 |-> One]
EmptyDict == Dict([n \in {} |-> Zero])
Keys(d) == DOMAIN d.val

None == [isNone |-> TRUE, d |-> EmptyDict]
Some(d) == [isNone |-> FALSE, d |-> d]

BetaScalar(v) == [kind |-> "scalar", scalar |-> v, list |-> <<>>, dict |-> EmptyDict]
BetaList(l) == [kind |-> "list", scalar |-> Zero, list |-> l, dict |-> EmptyDict]
BetaDict(d) == [kind |-> "dict", scalar |-> Zero, list |-> <<>>, dict |-> d]

\* Python list indexing l[k]: 0-based, negative k counts from the end
InRange(l, k) == -Len(l) <= k /\ k < Len(l)
Index(l, k) == IF k < 0 THEN l[Len(l) + k + 1] ELSE l[k + 1]

-----------------------------------------------------------------------------
(* The inputs the calls are made on.                                       *)

MaxIter == 2

DefaultMaxIter == 1000

EmptyGraph == Graph(<<>>, {}, FALSE)
EmptyMulti == Graph(<<>>, {}, TRUE)
Multi2 == Graph(<<0, 1>>, Sym({<<0, 1, NoData>>}), TRUE)
P2 == Graph(<<0, 1>>, Sym({<<0, 1, NoData>>}), FALSE)
Neg3 == Graph(<<-3, 0>>, Sym({<<-3, 0, NoData>>}), FALSE)
P2rev == Graph(<<1, 0>>, Sym({<<0, 1, NoData>>}), FALSE)
P2shift == Graph(<<1, 2>>, Sym({<<1, 2, NoData>>}), FALSE)
W2 == Graph(<<0, 1>>, Sym({<<0, 1, Weight(2)>>}), FALSE)
D2 == Graph(<<0, 1>>, {<<0, 1, Weight(2)>>, <<1, 0, NoData>>}, FALSE)
P3 == Graph(<<0, 1, 2>>, Sym({<<0, 1, NoData>>, <<1, 2, NoData>>}), FALSE)
Iso == Graph(<<0, 1, 2>>, Sym({<<0, 1, NoData>>}), FALSE)
P4 == Graph(<<0, 1, 2, 3>>,
            Sym({<<0, 1, NoData>>, <<1, 2, NoData>>, <<2, 3, NoData>>}), FALSE)

Graphs == {EmptyGraph, EmptyMulti, Multi2, P2, P2rev, P2shift, W2, D2, P3, Iso}

Alphas == {<<1, 4>>, <<1, 2>>, <<5, 8>>}

Tols == {Zero, <<1, 4>>, One}

\* beta arguments for graph g: scalars, a positional list 1, 2, ..., and a
\* dict that is 1 on the second node of the enumeration and 0 elsewhere
Betas(g) ==
    LET n == NumberOfNodes(g)
        second == IF n >= 2 THEN g.nodes[2] ELSE -1
    IN  {BetaScalar(One), BetaScalar(Zero),
         BetaList([k \in 1..n |-> Num(k)]),
         BetaDict(Dict([m \in Range(g.nodes) |-> IF m = second THEN One ELSE Zero]))}

\* nstart arguments for graph g: None, all ones, -2 on the first node of the
\* enumeration and 1 elsewhere, and all ones without the last node
Nstarts(g) ==
    LET n == NumberOfNodes(g)
    IN  {None, Some(Dict([m \in Range(g.nodes) |-> One]))}
        \cup (IF n >= 2
              THEN {Some(Dict([m \in Range(g.nodes) |->
                                 IF m = g.nodes[1] THEN Num(-2) ELSE One])),
                    Some(Dict([m \in Range(g.nodes) \ {g.nodes[n]} |-> One]))}
              ELSE {})

NoCall ==
    [solver |-> "none", normalized |-> FALSE, outcome |-> "none", ref |-> -1,
     value |-> EmptyDict, passes |-> 0, errs |-> <<>>, payload |-> <<>>,
     numbers |-> {}]

InitLocals ==
    /\ solver = "none"
    /\ normalized = FALSE
    /\ pc = "idle"
    /\ i = 0
    /\ x = -1
    /\ xlast = -1
    /\ dicts = <<>>
    /\ betaLocal = EmptyDict
    /\ visited = {}
    /\ errs = <<>>
    /\ last = NoCall
    /\ prev = NoCall
    /\ ties = <<>>

\* small graphs with every combination of the arguments
InitSmall ==
    /\ G \in Graphs
    /\ alpha \in Alphas
    /\ beta \in Betas(G)
    /\ max_iter \in 0..MaxIter
    /\ tol \in Tols
    /\ nstart \in Nstarts(G)
    /\ normChoices = BOOLEAN
    /\ floats = TRUE
    /\ hasNumpy = TRUE
    /\ InitLocals

\* nx.path_graph(4) with the default arguments, normalisation off
InitDefaults ==
    /\ G = P4
    /\ alpha = <<1, 10>>
    /\ beta = BetaScalar(One)
    /\ max_iter = DefaultMaxIter
    /\ tol = <<1, 1000000>>
    /\ nstart = None
    /\ normChoices = {FALSE}
    /\ floats = TRUE
    /\ hasNumpy = TRUE
    /\ InitLocals

\* alpha = 1/3, which no float holds exactly, passed as a float and as a
\* Fraction, on two nodes (one graph with a negative node id)
InitThirds ==
    /\ G \in {P2, Neg3}
    /\ alpha = <<1, 3>>
    /\ beta \in Betas(G) \cup {BetaScalar(Num(-1))}
    /\ max_iter \in 0..MaxIter
    /\ tol \in {Zero, <<1, 3>>}
    /\ nstart = None
    /\ normChoices = BOOLEAN
    /\ floats \in BOOLEAN
    /\ hasNumpy \in BOOLEAN
    /\ InitLocals

\* an installation without numpy: every graph, the arguments
\* katz_centrality_numpy reads, and no pass of katz_centrality
InitNoNumpy ==
    /\ G \in Graphs
    /\ alpha \in Alphas
    /\ beta \in {BetaScalar(One), BetaScalar(Zero)}
    /\ max_iter = 0
    /\ tol \in Tols
    /\ nstart = None
    /\ normChoices = BOOLEAN
    /\ floats = TRUE
    /\ hasNumpy = FALSE
    /\ InitLocals

Init == InitSmall \/ InitDefaults \/ InitThirds \/ InitNoNumpy

-----------------------------------------------------------------------------
(* Pieces of katz_centrality.                                              *)

KatzName == "katz_centrality"
NumpyName == "katz_centrality_numpy"

\* @not_implemented_for('multigraph'): the wrapped function is not entered
\* for a graph that reports multi-edge capability
not_implemented_for(g) == g.multigraph

\* KatzEntry with the zero-node check made before the multigraph check
KatzEntryLenFirst(g) ==
    IF NumberOfNodes(g) = 0 THEN "empty"
    ELSE IF not_implemented_for(g) THEN "NetworkXNotImplemented"
    ELSE "run"

\* the decorator, then `if len(G)==0: return {}`
KatzEntry(g) ==
    IF not_implemented_for(g) THEN "NetworkXNotImplemented"
    ELSE IF NumberOfNodes(g) = 0 THEN "empty"
    ELSE "run"

\* the decorator, then the guarded `import numpy as np`, then
\* `if len(G)==0: return {}`
NumpyEntry(g, importable) ==
    IF not_implemented_for(g) THEN "NetworkXNotImplemented"
    ELSE IF ~importable THEN "ImportError"
    ELSE IF NumberOfNodes(g) = 0 THEN "empty"
    ELSE "run"

Entry(sv, g) == IF sv = KatzName THEN KatzEntry(g) ELSE NumpyEntry(g, hasNumpy)

\* the object a reference denotes: 0 is the caller's nstart dict
Deref(r) == IF r = 0 THEN nstart.d ELSE dicts[r]

\* x = dict of zeros when nstart is None, else x = nstart (the same object)
InitialVector(g) == Dict([n \in Range(g.nodes) |-> Zero])

\* the two casts of beta; ok = FALSE when a list index is out of range
CastBeta(b, g) ==
    IF b.kind = "list"
    THEN IF \A nodeid \in Range(g.nodes) : InRange(b.list, nodeid)
         THEN [ok |-> TRUE,
               d |-> Dict([nodeid \in Range(g.nodes) |-> Index(b.list, nodeid)])]
         ELSE [ok |-> FALSE, d |-> EmptyDict]
    ELSE IF b.kind = "scalar"
    THEN [ok |-> TRUE, d |-> Dict([n \in Range(g.nodes) |-> b.scalar])]
    ELSE [ok |-> TRUE, d |-> b.dict]

\* dict.fromkeys(xlast, 0)
FromKeys(d) == Dict([n \in Keys(d) |-> Zero])

\* PassTarget without the new dict: x stays the object xlast is
PassTargetAlias(xlastRef, fresh) == xlastRef

\* the reference x is bound to at the top of a pass: the new dict
PassTarget(xlastRef, fresh) == fresh

\* ReadVector updating in place: the inner loop reads the vector it writes
ReadVectorInPlace(xRef, xlastRef) == xRef

\* the vector the inner loop reads while it fills x
ReadVector(xRef, xlastRef) == xlastRef

\* G[n], xlast[nbr] and beta[n] all succeed
LookupOK(n, xl, g, b) ==
    /\ n \in DOMAIN g.adj
    /\ \A nbr \in DOMAIN g.adj[n] : nbr \in Keys(xl)
    /\ n \in Keys(b)

\* NodeScore without the attenuation: x[n] = x[n] + beta[n]
NodeScoreNoAlpha(n, xl, g, a, b) ==
    LET nbrs == DOMAIN g.adj[n]
        terms == [nbr \in nbrs |->
                    RMul(xl.val[nbr], Num(GetWeight(g.adj[n][nbr])))]
    IN  RAdd(RSum(terms, nbrs), b.val[n])

\* NodeScore as its comment has it: y = Alpha * Ax - Beta
NodeScoreMinusBeta(n, xl, g, a, b) ==
    LET nbrs == DOMAIN g.adj[n]
        terms == [nbr \in nbrs |->
                    RMul(xl.val[nbr], Num(GetWeight(g.adj[n][nbr])))]
    IN  RSub(RMul(a, RSum(terms, nbrs)), b.val[n])

\* x[n] after `for nbr in G[n]: x[n] += xlast[nbr]*w` and
\* `x[n] = alpha*x[n] + beta[n]`
NodeScore(n, xl, g, a, b) ==
    LET nbrs == DOMAIN g.adj[n]
        terms == [nbr \in nbrs |->
                    RMul(xl.val[nbr], Num(GetWeight(g.adj[n][nbr])))]
    IN  RAdd(RMul(a, RSum(terms, nbrs)), b.val[n])

\* err = sum([abs(x[n]-xlast[n]) for n in x])
Err(xd, xl) ==
    RSum([n \in Keys(xd) |-> RAbs(RSub(xd.val[n], xl.val[n]))], Keys(xd))

\* a float holds q exactly: the denominator is a power of two (the
\* numerators here are far below 2^53)
RECURSIVE IsPow2(_)
IsPow2(d) == d = 1 \/ (d % 2 = 0 /\ IsPow2(d \div 2))

Dyadic(q) == IsPow2(q[2])

\* every number among the arguments is held exactly by a float
ExactArgs(a, t, b, ns) ==
    /\ Dyadic(a)
    /\ Dyadic(t)
    /\ Dyadic(b.scalar)
    /\ \A k \in 1..Len(b.list) : Dyadic(b.list[k])
    /\ \A n \in Keys(b.dict) : Dyadic(b.dict.val[n])
    /\ \A n \in Keys(ns.d) : Dyadic(ns.d.val[n])

\* the arithmetic of lines 142-147 rounds: the numbers are floats and one of
\* them is not held exactly.  With Fractions, and with floats that are all
\* dyadic, every operation is exact.
Rounds(fl, a, t, b, ns) == fl /\ ~ExactArgs(a, t, b, ns)

\* how `err < nnodes*tol` can come out when the exact values of the two
\* sides are equal.  Exact arithmetic: not below.  nnodes*0.0 is exactly 0.0
\* and err is a sum of abs(), so not below either.  Otherwise the two sides
\* are roundings of the same number by different operations and either may
\* be the smaller; the outcome is a function of the arguments, so a pass
\* already decided (known) keeps its outcome in every later call.
TieOutcomes(rounds, thr, known, k) ==
    IF rounds /\ RLess(Zero, thr)
    THEN IF k \in DOMAIN known THEN {known[k]} ELSE BOOLEAN
    ELSE {FALSE}

\* Converged with <= for <
ConvergedLeq(err, nnodes, t, fell) == RLeq(err, RMul(Num(nnodes), t))

\* err < nnodes*tol; fell is the outcome on floats whose exact values are
\* equal
Converged(err, nnodes, t, fell) ==
    \/ RLess(err, RMul(Num(nnodes), t))
    \/ err = RMul(Num(nnodes), t) /\ fell

RInv(a) == IF a[1] < 0 THEN <<-a[2], -a[1]>> ELSE <<a[2], a[1]>>

SumSq(d) == RSum([n \in Keys(d) |-> RMul(d.val[n], d.val[n])], Keys(d))

\* ScaleFactorSq without the square root: s = 1.0/sum(v**2)
ScaleFactorSqNoSqrt(d, nm) ==
    IF nm
    THEN IF SumSq(d) = Zero THEN One
         ELSE RMul(RInv(SumSq(d)), RInv(SumSq(d)))
    ELSE One

\* the square of s: 1.0/sqrt(sum(v**2)), 1.0 on ZeroDivisionError, 1 when
\* normalized is off
ScaleFactorSq(d, nm) ==
    IF nm
    THEN IF SumSq(d) = Zero THEN One ELSE RInv(SumSq(d))
    ELSE One

\* for n in x: x[n]*=s
Scaled(d, f2) == [val |-> d.val, s2 |-> RMul(d.s2, f2)]

\* the arguments of the NetworkXError: two string literals; the % operator
\* is inside the second literal, so no number is formatted into the message
ConvergenceError(iter) ==
    [payload |-> <<"Power iteration failed to converge in ",
                   "%d iterations.\"%(i+1))">>,
     numbers |-> {}]

-----------------------------------------------------------------------------
(* Pieces of katz_centrality_numpy.  Matrices are sequences of rows.       *)

\* nx.adj_matrix(G, nodelist=G.nodes()): A[i][j] is the weight of the edge
\* from the i-th to the j-th node of the enumeration, 0 if absent
AdjMatrix(g) ==
    LET n == NumberOfNodes(g)
    IN  [r \in 1..n |-> [c \in 1..n |->
            IF g.nodes[c] \in DOMAIN g.adj[g.nodes[r]]
            THEN Num(GetWeight(g.adj[g.nodes[r]][g.nodes[c]]))
            ELSE Zero]]

\* np.eye(n,n) - (alpha * A)
SystemMatrix(g, a) ==
    LET n == NumberOfNodes(g)
        A == AdjMatrix(g)
    IN  [r \in 1..n |-> [c \in 1..n |->
            RSub(IF r = c THEN One ELSE Zero, RMul(a, A[r][c]))]]

\* M without its first row and its j-th column
Minor(M, j) ==
    [r \in 1..(Len(M) - 1) |->
        [c \in 1..(Len(M) - 1) |-> M[r + 1][IF c < j THEN c ELSE c + 1]]]

RECURSIVE Det(_)
Det(M) ==
    IF Len(M) = 0 THEN One
    ELSE IF Len(M) = 1 THEN M[1][1]
    ELSE RSum([j \in 1..Len(M) |->
                 RMul(IF j % 2 = 1 THEN M[1][j] ELSE RNeg(M[1][j]),
                      Det(Minor(M, j)))],
              1..Len(M))

ReplaceCol(M, j, b) ==
    [r \in 1..Len(M) |-> [c \in 1..Len(M) |-> IF c = j THEN b[r] ELSE M[r][c]]]

\* np.linalg.solve(M, b) for a non-singular M: the solution of M x = b
Solve(M, b) ==
    [j \in 1..Len(M) |-> RMul(Det(ReplaceCol(M, j, b)), RInv(Det(M)))]

\* np.sign
Sign(a) == IF a[1] > 0 THEN 1 ELSE IF a[1] < 0 THEN -1 ELSE 0

\* dict(zip(G, map(float, centrality/norm))) with
\* norm = np.sign(sum(centrality)) * np.linalg.norm(centrality), or 1.0
NumpyResult(g, c, nm) ==
    LET n == NumberOfNodes(g)
        pos(m) == CHOOSE k \in 1..n : g.nodes[k] = m
        sg == Sign(RSum(c, 1..n))
        sq == RSum([k \in 1..n |-> RMul(c[k], c[k])], 1..n)
    IN  IF ~nm THEN Dict([m \in Range(g.nodes) |-> c[pos(m)]])
        ELSE IF sg = 0
        THEN [val |-> [m \in Range(g.nodes) |-> c[pos(m)]], s2 |-> <<1, 0>>]
        ELSE [val |-> [m \in Range(g.nodes) |->
                         IF sg < 0 THEN RNeg(c[pos(m)]) ELSE c[pos(m)]],
              s2 |-> RInv(sq)]

-----------------------------------------------------------------------------
(* The calls.                                                              *)

Frame == <<G, alpha, beta, max_iter, tol, normChoices, floats, hasNumpy>>

\* the call ends: its locals go away, its outcome is what the caller sees
Finish(outcome, ref, value, es, msg) ==
    /\ last' = [solver |-> solver, normalized |-> normalized,
                outcome |-> outcome, ref |-> ref, value |-> value,
                passes |-> Len(es), errs |-> es,
                payload |-> msg.payload, numbers |-> msg.numbers]
    /\ pc' = "idle"
    /\ i' = 0
    /\ x' = -1
    /\ xlast' = -1
    /\ dicts' = <<>>
    /\ betaLocal' = EmptyDict
    /\ visited' = {}
    /\ errs' = <<>>
    /\ UNCHANGED <<solver, normalized, prev>>

NoMsg == [payload |-> <<>>, numbers |-> {}]

\* the caller calls one of the two functions; katz_centrality_numpy takes a
\* scalar beta here
Call(sv, nm) ==
    /\ pc = "idle"
    /\ nm \in normChoices
    /\ sv = NumpyName => beta.kind = "scalar"
    /\ solver' = sv
    /\ normalized' = nm
    /\ pc' = "entry"
    /\ prev' = last
    /\ last' = NoCall
    /\ UNCHANGED <<Frame, ties, nstart, i, x, xlast, dicts, betaLocal, visited, errs>>

RejectMultigraph ==
    /\ pc = "entry"
    /\ Entry(solver, G) = "NetworkXNotImplemented"
    /\ Finish("NetworkXNotImplemented", -1, EmptyDict, <<>>, NoMsg)
    /\ UNCHANGED <<Frame, ties, nstart>>

ReturnEmpty ==
    /\ pc = "entry"
    /\ Entry(solver, G) = "empty"
    /\ Finish("returned", 1, EmptyDict, <<>>, NoMsg)
    /\ UNCHANGED <<Frame, ties, nstart>>

\* katz_centrality_numpy without numpy: raise ImportError(...)
RaiseImportError ==
    /\ pc = "entry"
    /\ Entry(solver, G) = "ImportError"
    /\ Finish("ImportError", -1, EmptyDict, <<>>,
              [payload |-> <<"Requires NumPy: http://scipy.org/">>, numbers |-> {}])
    /\ UNCHANGED <<Frame, ties, nstart>>

\* nnodes, x and the casts of beta
KatzSetup ==
    /\ pc = "entry"
    /\ solver = KatzName
    /\ Entry(solver, G) = "run"
    /\ LET cast == CastBeta(beta, G)
       IN  IF cast.ok
           THEN /\ betaLocal' = cast.d
                /\ IF nstart.isNone
                   THEN x' = 1 /\ dicts' = <<InitialVector(G)>>
                   ELSE x' = 0 /\ dicts' = <<>>
                /\ pc' = "loop"
                /\ i' = 0
                /\ UNCHANGED <<solver, normalized, xlast, visited, errs, last, prev>>
           ELSE Finish("IndexError", -1, EmptyDict, <<>>, NoMsg)
    /\ UNCHANGED <<Frame, ties, nstart>>

\* for i in range(max_iter): xlast=x; x=dict.fromkeys(xlast, 0)
BeginPass ==
    /\ pc = "loop"
    /\ i < max_iter
    /\ xlast' = x
    /\ dicts' = Append(dicts, FromKeys(Deref(x)))
    /\ x' = PassTarget(x, Len(dicts) + 1)
    /\ visited' = {}
    /\ pc' = "pass"
    /\ UNCHANGED <<Frame, ties, nstart, solver, normalized, i, betaLocal, errs, last, prev>>

\* one round of `for n in x`, in whatever order the dict enumerates its keys
VisitNode(n) ==
    /\ pc = "pass"
    /\ n \in Keys(Deref(x)) \ visited
    /\ LET xl == Deref(ReadVector(x, xlast))
           xd == Deref(x)
       IN  IF LookupOK(n, xl, G, betaLocal)
           THEN LET new == [xd EXCEPT !.val[n] = NodeScore(n, xl, G, alpha, betaLocal)]
                IN  /\ nstart' = IF x = 0 THEN Some(new) ELSE nstart
                    /\ dicts' = IF x = 0 THEN dicts ELSE [dicts EXCEPT ![x] = new]
                    /\ visited' = visited \cup {n}
                    /\ UNCHANGED <<solver, normalized, pc, i, x, xlast, betaLocal,
                                   errs, last, prev>>
           ELSE /\ Finish("KeyError", -1, EmptyDict, errs, NoMsg)
                /\ UNCHANGED nstart
    /\ UNCHANGED <<Frame, ties>>

\* the convergence test after a pass, the scaling and the return
CheckConvergence ==
    /\ pc = "pass"
    /\ visited = Keys(Deref(x))
    /\ LET err == Err(Deref(x), Deref(xlast))
           es == Append(errs, err)
           thr == RMul(Num(NumberOfNodes(G)), tol)
           rounds == Rounds(floats, alpha, tol, beta, nstart)
       IN  \E fell \in TieOutcomes(rounds, thr, ties, i + 1) :
             /\ ties' = IF err = thr /\ rounds /\ RLess(Zero, thr)
                         THEN [k \in DOMAIN ties \cup {i + 1} |->
                                 IF k = i + 1 THEN fell ELSE ties[k]]
                         ELSE ties
             /\ IF Converged(err, NumberOfNodes(G), tol, fell)
                THEN LET out == Scaled(Deref(x), ScaleFactorSq(Deref(x), normalized))
                     IN  /\ Finish("returned", x, out, es, NoMsg)
                         /\ nstart' = IF x = 0 THEN Some(out) ELSE nstart
                ELSE /\ errs' = es
                     /\ i' = i + 1
                     /\ pc' = "loop"
                     /\ UNCHANGED <<nstart, solver, normalized, x, xlast, dicts,
                                    betaLocal, visited, last, prev>>
    /\ UNCHANGED Frame

\* the loop ran out: raise nx.NetworkXError(...)
NotConverged ==
    /\ pc = "loop"
    /\ i >= max_iter
    /\ Finish("NetworkXError", -1, EmptyDict, errs, ConvergenceError(i))
    /\ UNCHANGED <<Frame, ties, nstart>>

\* katz_centrality_numpy on a non-empty graph: the matrix, the solve, the
\* normalisation and the zip
KatzNumpy ==
    /\ pc = "entry"
    /\ solver = NumpyName
    /\ Entry(solver, G) = "run"
    /\ LET n == NumberOfNodes(G)
           M == SystemMatrix(G, alpha)
           b == [k \in 1..n |-> beta.scalar]
       IN  IF Det(M) = Zero
           THEN Finish("LinAlgError", -1, EmptyDict, <<>>, NoMsg)
           ELSE Finish("returned", 1, NumpyResult(G, Solve(M, b), normalized),
                       <<>>, NoMsg)
    /\ UNCHANGED <<Frame, ties, nstart>>

Next ==
    \/ \E sv \in {KatzName, NumpyName} : \E nm \in BOOLEAN : Call(sv, nm)
    \/ RejectMultigraph
    \/ ReturnEmpty
    \/ RaiseImportError
    \/ KatzSetup
    \/ BeginPass
    \/ \E n \in Range(G.nodes) \cup Keys(nstart.d) : VisitNode(n)
    \/ CheckConvergence
    \/ NotConverged
    \/ KatzNumpy

Spec == Init /\ [][Next]_vars

-----------------------------------------------------------------------------
(* Reference formulas the properties are stated with.                      *)

\* the Katz map of the documentation, on a whole vector v (a function on
\* keys): alpha * sum over the neighbours m of n of v[m] * weight(n, m) + b[n]
KatzMap(v, g, a, b) ==
    [n \in DOMAIN v |->
        RAdd(RMul(a, RSum([m \in DOMAIN g.adj[n] |->
                             RMul(v[m], Num(GetWeight(g.adj[n][m])))],
                          DOMAIN g.adj[n])),
             b[n])]

\* the vector the call starts from, and the per-node beta it uses
StartVector == IF nstart.isNone THEN InitialVector(G).val ELSE nstart.d.val
BetaMap == CastBeta(beta, G).d.val

\* the k-th iterate of the Katz map from the start vector
RECURSIVE KatzIterate(_)
KatzIterate(k) ==
    IF k = 0 THEN StartVector
    ELSE KatzMap(KatzIterate(k - 1), G, alpha, BetaMap)

\* sum over n of |v[n] - u[n]|
L1Diff(v, u) == RSum([n \in DOMAIN v |-> RAbs(RSub(v[n], u[n]))], DOMAIN v)

Threshold == RMul(Num(NumberOfNodes(G)), tol)

\* the comparison `err < nnodes*tol` of pass k of the last call came out true
Below(k) ==
    \/ RLess(last.errs[k], Threshold)
    \/ last.errs[k] = Threshold /\ k \in DOMAIN ties /\ ties[k]

KatzDone == last.solver = KatzName /\ last.outcome # "none"
KatzReturned == last.solver = KatzName /\ last.outcome = "returned"
LookupFailed == last.outcome \in {"KeyError", "IndexError"}

-----------------------------------------------------------------------------
(* C1: every successful call of katz_centrality returns a mapping whose    *)
(* key set is exactly the node set of G, also when the caller's nstart has *)
(* other keys.  The code builds every x from the keys of nstart, so a      *)
(* nstart that omits an isolated node yields a result without that node.   *)
C1_KeysAreNodes ==
    KatzReturned => Keys(last.value) = Range(G.nodes)

(* C2: on a non-empty non-multigraph katz_centrality makes at most         *)
(* max_iter passes; it returns iff some pass k has                         *)
(* err_k = sum |x_k - x_(k-1)| < number_of_nodes * tol, with the vector of *)
(* the first such pass; otherwise it ends with the did-not-converge error  *)
(* and no result.  (A call whose lookups fail ends in that lookup error    *)
(* before any pass completes.)  The comparison is the one the code makes   *)
(* on its own numbers: it differs from the comparison of the exact values  *)
(* only when these are equal, the threshold is positive and the float      *)
(* arithmetic rounds.                                                      *)
C2_ConvergenceRule ==
    (KatzDone /\ KatzEntry(G) = "run")
    => /\ last.passes <= max_iter
       /\ LookupFailed => last.passes = 0
       /\ ~LookupFailed =>
            /\ \A k \in 1..last.passes :
                 last.errs[k] = L1Diff(KatzIterate(k), KatzIterate(k - 1))
            /\ last.outcome = "returned" <=> \E k \in 1..last.passes : Below(k)
            /\ \A k \in 1..(last.passes - 1) : ~Below(k)
            /\ \A k \in 1..last.passes :
                 Below(k) /\ ~RLess(last.errs[k], Threshold)
                   => /\ Rounds(floats, alpha, tol, beta, nstart)
                      /\ RLess(Zero, Threshold)
            /\ ~Rounds(floats, alpha, tol, beta, nstart) => ties = <<>>
            /\ last.outcome = "returned"
                 => last.value.val = KatzIterate(last.passes)
            /\ last.outcome # "returned"
                 => /\ last.outcome = "NetworkXError"
                    /\ last.passes = max_iter
                    /\ last.ref = -1
                    /\ last.value = EmptyDict

\* a call that returned from its second pass
C2_Witness ==
    /\ KatzReturned
    /\ last.passes = 2
    /\ RLess(last.errs[2], Threshold)

(* C3: the did-not-converge error of katz_centrality reports the number of *)
(* iterations attempted (max_iter) in its payload.                         *)
C3_ErrorReportsIterations ==
    (last.solver = KatzName /\ last.outcome = "NetworkXError")
    => max_iter \in last.numbers

(* C4: a list beta of length n is cast to a per-node mapping by position:  *)
(* the k-th node of G's enumeration gets the k-th element, whatever the    *)
(* node ids are.                                                           *)
C4_PositionalBeta ==
    (beta.kind = "list" /\ Len(beta.list) = NumberOfNodes(G))
    => /\ last.outcome # "IndexError"
       /\ pc \in {"loop", "pass"}
            => \A k \in 1..NumberOfNodes(G) :
                 /\ G.nodes[k] \in Keys(betaLocal)
                 /\ betaLocal.val[G.nodes[k]] = beta.list[k]

(* C5: a call to katz_centrality leaves its inputs unchanged, whether it   *)
(* returns or raises: no step changes the graph, the caller's nstart dict  *)
(* or the caller's beta object, and a returned mapping is never the nstart *)
(* object itself.                                                          *)
C5_InputsUnchanged ==
    [][/\ G' = G
       /\ nstart' = nstart
       /\ beta' = beta
       /\ (last'.solver = KatzName /\ last'.outcome = "returned")
            => last'.ref # 0]_vars

\* a normalised result was scaled in place and returned for a caller-supplied
\* nstart and a caller-supplied beta dict
C5_Witness ==
    /\ KatzReturned
    /\ ~nstart.isNone
    /\ beta.kind = "dict"
    /\ last.normalized
    /\ last.value.s2 # One

(* C6: for a graph that reports multi-edge capability, with any number of  *)
(* nodes (zero included), both functions end with the unsupported-graph    *)
(* error and no result, before the zero-node check, the beta casts, any    *)
(* pass and any matrix construction; for katz_centrality_numpy also        *)
(* before the import of numpy, so with and without numpy installed.        *)
C6_MultigraphRejected ==
    G.multigraph
    => /\ pc \in {"idle", "entry"}
       /\ dicts = <<>>
       /\ betaLocal = EmptyDict
       /\ errs = <<>>
       /\ last.outcome \in {"none", "NetworkXNotImplemented"}
       /\ last.ref = -1
       /\ last.value = EmptyDict
       /\ last.passes = 0

\* both functions have rejected the multigraph with zero nodes, in an
\* installation without numpy
C6_Witness ==
    /\ G.multigraph
    /\ ~hasNumpy
    /\ NumberOfNodes(G) = 0
    /\ prev.solver = NumpyName
    /\ prev.outcome = "NetworkXNotImplemented"
    /\ last.solver = KatzName
    /\ last.outcome = "NetworkXNotImplemented"

\* alpha is in the admissible range 0 < alpha < 1/lambda_max: for the
\* non-negative matrix A this is that every leading principal minor of
\* I - alpha*A is positive (I - alpha*A is a non-singular M-matrix)
Admissible ==
    /\ RLess(Zero, alpha)
    /\ \A k \in 1..NumberOfNodes(G) :
         RLess(Zero, Det([r \in 1..k |-> [c \in 1..k |-> SystemMatrix(G, alpha)[r][c]]]))

NonIncreasing(es) == \A k \in 1..(Len(es) - 1) : RLeq(es[k + 1], es[k])

(* C7 as stated: with alpha in the admissible range the total absolute     *)
(* difference between successive iterates never grows from one pass to the *)
(* next, for every graph, beta and initial vector.                         *)
C7_ErrNonIncreasing ==
    Admissible => NonIncreasing(errs) /\ NonIncreasing(last.errs)

\* the largest total weight of the edges into one node: the largest column
\* sum of A
ColSum(m) ==
    RSum([n \in {u \in Range(G.nodes) : m \in DOMAIN G.adj[u]} |->
            Num(GetWeight(G.adj[n][m]))],
         {u \in Range(G.nodes) : m \in DOMAIN G.adj[u]})

Contractive ==
    /\ RLess(Zero, alpha)
    /\ \A m \in Range(G.nodes) : RLeq(RMul(alpha, ColSum(m)), One)

(* C7 as amended: when alpha times the largest column sum of the           *)
(* (non-negative) adjacency matrix is at most 1, the total absolute        *)
(* difference between successive iterates never grows from one pass to the *)
(* next, for every beta and every initial vector.                          *)
C7_ErrNonIncreasingContractive ==
    Contractive => NonIncreasing(errs) /\ NonIncreasing(last.errs)

\* three passes on the path 0-1-2 with alpha * 2 = 1, the second and third
\* with a non-zero difference
C7_Witness ==
    /\ Contractive
    /\ G = P3
    /\ last.solver = KatzName
    /\ last.passes >= 2
    /\ RLess(Zero, last.errs[2])
    /\ RLeq(last.errs[2], last.errs[1])

Defaults ==
    /\ G = P4
    /\ alpha = <<1, 10>>
    /\ beta = BetaScalar(One)
    /\ max_iter = DefaultMaxIter
    /\ tol = <<1, 1000000>>
    /\ nstart.isNone

\* the two most recent calls were one of each function, both without
\* normalisation, and both returned
BothSolvers(it, np) ==
    /\ it.solver = KatzName /\ np.solver = NumpyName
    /\ it.outcome = "returned" /\ np.outcome = "returned"
    /\ ~it.normalized /\ ~np.normalized

\* |a - b| < t
Within(a, b, t) == RLess(a, RAdd(b, t)) /\ RLess(b, RAdd(a, t))

Close(it, np) ==
    \A n \in Range(G.nodes) : Within(it.value.val[n], np.value.val[n], tol)

(* C8: on the path graph of 4 nodes with the default arguments and         *)
(* normalisation off, katz_centrality converges and each of its scores is  *)
(* within tol of the score of katz_centrality_numpy, which is the exact    *)
(* solution of (I - alpha*A) x = beta in the orientation of the iteration  *)
(* (node n sums over the neighbours G[n]); that orientation holds on     *)
(* every graph, the directed one included.                                 *)
C8_SolversAgree ==
    /\ (Defaults /\ KatzDone) => last.outcome = "returned"
    /\ (Defaults /\ BothSolvers(last, prev)) => Close(last, prev)
    /\ (Defaults /\ BothSolvers(prev, last)) => Close(prev, last)
    /\ (last.solver = NumpyName /\ last.outcome = "returned" /\ ~last.normalized)
         => last.value.val
              = KatzMap(last.value.val, G, alpha,
                        [n \in Range(G.nodes) |-> beta.scalar])

\* katz_centrality returned from its ninth pass on the path graph and
\* katz_centrality_numpy returned after it
C8_Witness ==
    /\ Defaults
    /\ BothSolvers(prev, last)
    /\ prev.passes = 9

(* C9: the normalized flag changes neither whether nor at which pass       *)
(* katz_centrality converges; the result with normalized=True is the       *)
(* result x_u with normalized=False times 1/||x_u||, and times 1 when      *)
(* ||x_u|| is exactly zero (no error).                                     *)
NormalizedPair(xn, xu) ==
    /\ xn.solver = KatzName /\ xu.solver = KatzName
    /\ xn.normalized /\ ~xu.normalized

ScaledByNorm(xn, xu) ==
    /\ xn.outcome = xu.outcome
    /\ xn.passes = xu.passes
    /\ xn.errs = xu.errs
    /\ xn.value.val = xu.value.val
    /\ xu.value.s2 = One
    /\ IF \A n \in Keys(xu.value) : xu.value.val[n] = Zero
       THEN xn.value.s2 = One
       ELSE RMul(xn.value.s2,
                 RSum([n \in Keys(xu.value) |->
                         RMul(xu.value.val[n], xu.value.val[n])],
                      Keys(xu.value))) = One

C9_NormalizedIsScaled ==
    /\ NormalizedPair(last, prev) => ScaledByNorm(last, prev)
    /\ NormalizedPair(prev, last) => ScaledByNorm(prev, last)

\* the same call made with normalized=False and then normalized=True returned
\* twice, with a norm that is neither 0 nor 1
C9_Witness ==
    /\ NormalizedPair(last, prev)
    /\ last.outcome = "returned"
    /\ last.passes >= 1
    /\ last.value.s2 # One

(* C10: a pass is synchronous: the score written for node n is             *)
(* alpha * sum over the neighbours m of n of previous[m] * weight(n, m)    *)
(* + beta[n] with previous the complete vector of the pass before, which   *)
(* the pass does not write; nodes not yet visited hold 0; so the vector a  *)
(* pass ends with does not depend on the order of the visits.              *)
C10_SynchronousPass ==
    pc = "pass"
    => /\ x # xlast
       /\ Deref(xlast).val = KatzIterate(i)
       /\ \A n \in Keys(Deref(x)) :
            Deref(x).val[n] =
              IF n \in visited
              THEN KatzMap(Deref(xlast).val, G, alpha, betaLocal.val)[n]
              ELSE Zero

\* in the second pass, a node is visited after one of its neighbours, whose
\* score of this pass differs from its score of the pass before
C10_Witness ==
    /\ pc = "pass"
    /\ i >= 1
    /\ \E n \in visited : \E m \in visited \cap DOMAIN G.adj[n] :
         /\ n # m
         /\ Deref(x).val[m] # Deref(xlast).val[m]

====
